---- MODULE Spec2Model ----
(***************************************************************************)
(* A model of pipelines/gedi_extract_l4a.py: the GEDI L4A schema registry, *)
(* the sorted schema views, and the extract_values / write_csv driver that *)
(* turns the BEAM groups of one HDF file into one CSV file.                *)
(***************************************************************************)
EXTENDS Integers, Sequences, FiniteSets, TLC

VARIABLES
  pc,            \* position of the run: "start", "loop", "done", "rejected", "raised"
  input_path,    \* the single element of input_paths
  dest,          \* the lines of the file at output_path
  src_opened,    \* TRUE once h5py.File(l4a_path) has been entered
  dest_opened,   \* TRUE once open(output_path, 'w') has been entered
  logged,        \* the logging.error records
  hdf,           \* the contents of the opened HDF file
  pos,           \* how many keys of the file the for loop has consumed
  is_first,      \* write_csv's header flag
  assembled,     \* df as the hdf_to_df calls of the latest beam left it
  serialized,    \* one record per to_csv call: the key, the columns, the rows
  raised,        \* the exception that ended the run, or "none"
  schema,        \* a GediVars instance under test
  numeric_out,   \* the results of the numeric_vars() calls made on schema
  all_out        \* the results of the all_vars() calls made on schema

vars == << pc, input_path, dest, src_opened, dest_opened, logged, hdf, pos,
           is_first, assembled, serialized, raised, schema,
           numeric_out, all_out >>

driver_vars == << pc, input_path, dest, src_opened, dest_opened, logged, hdf,
                  pos, is_first, assembled, serialized, raised >>

schema_vars == << schema, numeric_out, all_out >>


(* Strings as Python compares them.                                        *)

Range(s) == { s[i] : i \in 1..Len(s) }

\* The characters that occur in names, keys and paths, in three runs of
\* consecutive code points starting at 46, 65 and 97, and the underscore.
CharsFrom46 == "./0123456789"
CharsFrom65 == "ABCDEFGHIJKLMNOPQRSTUVWXYZ"
CharsFrom97 == "abcdefghijklmnopqrstuvwxyz"

CharAt(s, i) == SubSeq(s, i, i)

\* The code points of the characters of s, which are consecutive from first.
CodePoints(s, first) ==
  [c \in { CharAt(s, i) : i \in 1..Len(s) } |->
     first - 1 + (CHOOSE i \in 1..Len(s) : CharAt(s, i) = c)]

\* ord(c): the code point of a one-character string.
ord ==
  CodePoints(CharsFrom46, 46) @@ CodePoints(CharsFrom65, 65) @@
  CodePoints(CharsFrom97, 97) @@ ("_" :> 95)

\* a < b on str: code point by code point, a proper prefix being smaller.
RECURSIVE StrLessFrom(_, _, _)
StrLessFrom(a, b, i) ==
  IF i > Len(a) THEN i <= Len(b)
  ELSE IF i > Len(b) THEN FALSE
  ELSE IF CharAt(a, i) = CharAt(b, i) THEN StrLessFrom(a, b, i + 1)
  ELSE ord[CharAt(a, i)] < ord[CharAt(b, i)]

\* A comparison that puts the shorter string first, whatever its characters.
StrLess_shorter_first(a, b) ==
  Len(a) < Len(b) \/ (Len(a) = Len(b) /\ StrLessFrom(a, b, 1))

StrLess(a, b) == StrLessFrom(a, b, 1)

\* s.startswith(p) and s.endswith(p).
startswith(s, p) == Len(s) >= Len(p) /\ SubSeq(s, 1, Len(p)) = p

endswith(s, p) ==
  Len(s) >= Len(p) /\ SubSeq(s, Len(s) - Len(p) + 1, Len(s)) = p

\* The part of a path after its last "/" (the whole path when it has none).
RECURSIVE LastSlash(_, _)
LastSlash(p, i) ==
  IF i = 0 THEN 0
  ELSE IF CharAt(p, i) = "/" THEN i
  ELSE LastSlash(p, i - 1)

basename(p) == SubSeq(p, LastSlash(p, Len(p)) + 1, Len(p))


(* sorted() and the GediVars dataclass.                                    *)

\* Whether s[i] comes before s[j] in sorted(s): it is smaller, or it is equal
\* and stands earlier (the sort is stable).
Precedes(s, i, j) == StrLess(s[i], s[j]) \/ (s[i] = s[j] /\ i < j)

\* sorted(iterable) on strings: every element is kept and lands behind the
\* elements that precede it.
sorted(s) ==
  LET rank == [i \in 1..Len(s) |->
                 1 + Cardinality({ j \in 1..Len(s) : Precedes(s, j, i) })]
  IN  [r \in 1..Len(s) |-> s[CHOOSE i \in 1..Len(s) : rank[i] = r]]

GediVars(ints, floats, strs) ==
  [integer_variables |-> ints, float_variables |-> floats,
   string_variables |-> strs]

\* GediVars.numeric_vars
numeric_vars(self) ==
  sorted(self.integer_variables \o self.float_variables)

\* GediVars.all_vars
all_vars(self) == sorted(numeric_vars(self) \o self.string_variables)


(* The schema registry and the fill lists.                                 *)

\* The top-level per-shot schema (integer, float and string names).
gedi_vars ==
  GediVars(
    << "algorithm_run_flag", "beam", "channel", "degrade_flag",
       "l2_quality_flag", "l4_quality_flag", "master_int",
       "predictor_limit_flag", "response_limit_flag", "selected_algorithm",
       "selected_mode", "selected_mode_flag", "surface_flag" >>,
    << "agbd", "agbd_pi_lower", "agbd_pi_upper", "agbd_se", "agbd_t",
       "agbd_t_se", "delta_time", "elev_lowestmode", "lat_lowestmode",
       "lon_lowestmode", "master_frac", "sensitivity", "solar_elevation" >>,
    << "shot_number", "predict_stratum" >>)

\* The keys of the sub-group dict in declaration order, which is the order
\* in which group_vars.items() yields them.
group_names == << "agbd_prediction", "geolocation", "land_cover_data" >>

\* The sub-group schemas, keyed by group name.
group_vars ==
  [  agbd_prediction |->
     GediVars(
       << "algorithm_run_flag_a1", "algorithm_run_flag_a10",
          "algorithm_run_flag_a2", "algorithm_run_flag_a3",
          "algorithm_run_flag_a4", "algorithm_run_flag_a5",
          "algorithm_run_flag_a6", "l2_quality_flag_a1",
          "l2_quality_flag_a10", "l2_quality_flag_a2", "l2_quality_flag_a3",
          "l2_quality_flag_a4", "l2_quality_flag_a5", "l2_quality_flag_a6",
          "l4_quality_flag_a1", "l4_quality_flag_a10", "l4_quality_flag_a2",
          "l4_quality_flag_a3", "l4_quality_flag_a4", "l4_quality_flag_a5",
          "l4_quality_flag_a6", "predictor_limit_flag_a1",
          "predictor_limit_flag_a10", "predictor_limit_flag_a2",
          "predictor_limit_flag_a3", "predictor_limit_flag_a4",
          "predictor_limit_flag_a5", "predictor_limit_flag_a6",
          "response_limit_flag_a1", "response_limit_flag_a10",
          "response_limit_flag_a2", "response_limit_flag_a3",
          "response_limit_flag_a4", "response_limit_flag_a5",
          "response_limit_flag_a6", "selected_mode_a1", "selected_mode_a10",
          "selected_mode_a2", "selected_mode_a3", "selected_mode_a4",
          "selected_mode_a5", "selected_mode_a6", "selected_mode_flag_a1",
          "selected_mode_flag_a10", "selected_mode_flag_a2",
          "selected_mode_flag_a3", "selected_mode_flag_a4",
          "selected_mode_flag_a5", "selected_mode_flag_a6" >>,
       << "agbd_a1", "agbd_a10", "agbd_a2", "agbd_a3", "agbd_a4", "agbd_a5",
          "agbd_a6", "agbd_pi_lower_a1", "agbd_pi_lower_a10",
          "agbd_pi_lower_a2", "agbd_pi_lower_a3", "agbd_pi_lower_a4",
          "agbd_pi_lower_a5", "agbd_pi_lower_a6", "agbd_pi_upper_a1",
          "agbd_pi_upper_a10", "agbd_pi_upper_a2", "agbd_pi_upper_a3",
          "agbd_pi_upper_a4", "agbd_pi_upper_a5", "agbd_pi_upper_a6",
          "agbd_se_a1", "agbd_se_a10", "agbd_se_a2", "agbd_se_a3",
          "agbd_se_a4", "agbd_se_a5", "agbd_se_a6", "agbd_t_a1",
          "agbd_t_a10", "agbd_t_a2", "agbd_t_a3", "agbd_t_a4", "agbd_t_a5",
          "agbd_t_a6", "agbd_t_pi_lower_a1", "agbd_t_pi_lower_a10",
          "agbd_t_pi_lower_a2", "agbd_t_pi_lower_a3", "agbd_t_pi_lower_a4",
          "agbd_t_pi_lower_a5", "agbd_t_pi_lower_a6", "agbd_t_pi_upper_a1",
          "agbd_t_pi_upper_a10", "agbd_t_pi_upper_a2", "agbd_t_pi_upper_a3",
          "agbd_t_pi_upper_a4", "agbd_t_pi_upper_a5", "agbd_t_pi_upper_a6",
          "agbd_t_se_a1", "agbd_t_se_a10", "agbd_t_se_a2", "agbd_t_se_a3",
          "agbd_t_se_a4", "agbd_t_se_a5", "agbd_t_se_a6" >>,
       << >>),
   geolocation |->
     GediVars(
       << "stale_return_flag" >>,
       << "elev_lowestmode_a1", "elev_lowestmode_a10", "elev_lowestmode_a2",
          "elev_lowestmode_a3", "elev_lowestmode_a4", "elev_lowestmode_a5",
          "elev_lowestmode_a6", "lat_lowestmode_a1", "lat_lowestmode_a10",
          "lat_lowestmode_a2", "lat_lowestmode_a3", "lat_lowestmode_a4",
          "lat_lowestmode_a5", "lat_lowestmode_a6", "lon_lowestmode_a1",
          "lon_lowestmode_a10", "lon_lowestmode_a2", "lon_lowestmode_a3",
          "lon_lowestmode_a4", "lon_lowestmode_a5", "lon_lowestmode_a6",
          "sensitivity_a1", "sensitivity_a10", "sensitivity_a2",
          "sensitivity_a3", "sensitivity_a4", "sensitivity_a5",
          "sensitivity_a6" >>,
       << >>),
   land_cover_data |->
     GediVars(
       << "landsat_water_persistence", "leaf_off_doy", "leaf_off_flag",
          "leaf_on_cycle", "leaf_on_doy", "pft_class", "region_class",
          "urban_focal_window_size", "urban_proportion" >>,
       << "landsat_treecover" >>,
       << >>)]

\* Output columns whose fill value is the float sentinel.
filled_vars_float ==
  << "agbd", "agbd_pi_lower", "agbd_pi_upper", "agbd_se", "agbd_t",
     "agbd_t_se", "agbd_a1", "agbd_a10", "agbd_a2", "agbd_a3", "agbd_a4",
     "agbd_a5", "agbd_a6", "agbd_pi_lower_a1", "agbd_pi_lower_a10",
     "agbd_pi_lower_a2", "agbd_pi_lower_a3", "agbd_pi_lower_a4",
     "agbd_pi_lower_a5", "agbd_pi_lower_a6", "agbd_pi_upper_a1",
     "agbd_pi_upper_a10", "agbd_pi_upper_a2", "agbd_pi_upper_a3",
     "agbd_pi_upper_a4", "agbd_pi_upper_a5", "agbd_pi_upper_a6",
     "agbd_se_a1", "agbd_se_a10", "agbd_se_a2", "agbd_se_a3", "agbd_se_a4",
     "agbd_se_a5", "agbd_se_a6", "agbd_t_a1", "agbd_t_a10", "agbd_t_a2",
     "agbd_t_a3", "agbd_t_a4", "agbd_t_a5", "agbd_t_a6",
     "agbd_t_pi_lower_a1", "agbd_t_pi_lower_a10", "agbd_t_pi_lower_a2",
     "agbd_t_pi_lower_a3", "agbd_t_pi_lower_a4", "agbd_t_pi_lower_a5",
     "agbd_t_pi_lower_a6", "agbd_t_pi_upper_a1", "agbd_t_pi_upper_a10",
     "agbd_t_pi_upper_a2", "agbd_t_pi_upper_a3", "agbd_t_pi_upper_a4",
     "agbd_t_pi_upper_a5", "agbd_t_pi_upper_a6", "agbd_t_se_a1",
     "agbd_t_se_a10", "agbd_t_se_a2", "agbd_t_se_a3", "agbd_t_se_a4",
     "agbd_t_se_a5", "agbd_t_se_a6" >>

\* A byte fill list that names an algorithm index no schema declares.
filled_vars_byte_undeclared ==
  << "predictor_limit_flag", "predictor_limit_flag_a7", "response_limit_flag" >>

\* Output columns whose fill value is the byte sentinel.
filled_vars_byte ==
  << "predictor_limit_flag", "predictor_limit_flag_a1",
     "predictor_limit_flag_a10", "predictor_limit_flag_a2",
     "predictor_limit_flag_a3", "predictor_limit_flag_a4",
     "predictor_limit_flag_a5", "predictor_limit_flag_a6",
     "response_limit_flag", "response_limit_flag_a1",
     "response_limit_flag_a10", "response_limit_flag_a2",
     "response_limit_flag_a3", "response_limit_flag_a4",
     "response_limit_flag_a5", "response_limit_flag_a6" >>

\* The float and byte fill values of the two replace statements.
FloatSentinel == -9999
ByteSentinel == 255

\* The sorted views, in the order write_csv walks them: the top-level names
\* as they are, each sub-group's names behind "<group>/".
top_level_paths == all_vars(gedi_vars)

\* k + '/' + var for every var of names.
prefixed(k, names) == [i \in 1..Len(names) |-> k \o "/" \o names[i]]

group_paths(g) == prefixed(g, all_vars(group_vars[g]))

\* The paths of the first n sub-groups, group after group.
RECURSIVE group_fetches(_)
group_fetches(n) ==
  IF n = 0 THEN << >>
  ELSE group_fetches(n - 1) \o group_paths(group_names[n])

fetch_order == top_level_paths \o group_fetches(Len(group_names))

\* The dataset paths the schemas declare, and the column each one is
\* fetched into: the last segment of the path.
declared_paths == Range(fetch_order)

column_name == [path \in declared_paths |-> basename(path)]

(* Cells and tables.                                                        *)

\* A cell holds a number or is missing (NaN).
NaN == [isnull |-> TRUE, v |-> 0]
Val(n) == [isnull |-> FALSE, v |-> n]

notnull(cell) == ~cell.isnull

\* pd.DataFrame(): no columns, no rows.
EmptyTable == [columns |-> << >>, data |-> << >>]

HasColumn(t, c) == c \in DOMAIN t.data

NumRows(t) == IF t.columns = << >> THEN 0 ELSE Len(t.data[t.columns[1]])

\* The cells of row i in column order.
RowOf(t, i) == [j \in 1..Len(t.columns) |-> t.data[t.columns[j]][i]]

RowsOf(t) == [i \in 1..NumRows(t) |-> RowOf(t, i)]

\* df[c] = values: a new column goes last, an existing one keeps its place.
SetColumn(t, c, values) ==
  [columns |-> IF HasColumn(t, c) THEN t.columns ELSE Append(t.columns, c),
   data |-> (c :> values) @@ t.data]

(* The HDF source file.                                                     *)

\* The keys a file may hold, in the order h5py yields them, and the key
\* sets of the files of the model.
KeyOrder == << "ANCILLARY", "BEAM0000", "BEAM0001" >>

KeySets ==
  { {}, {"ANCILLARY"}, {"BEAM0001"}, {"ANCILLARY", "BEAM0000"},
    {"ANCILLARY", "BEAM0000", "BEAM0001"} }

\* Bound: the shots of all BEAM groups of a file together.
MaxRows == 2

\* The shots a beam may hold.  A shot gives the cells of the datasets listed
\* here; every other declared dataset holds 1 for it.
Shots ==
  << \* a clean shot; 254 in a byte-list column, 255 in a float-list column
     \* and in a column of neither list
     ( "lat_lowestmode" :> Val(12) @@ "lon_lowestmode" :> Val(45) @@
       "agbd" :> Val(100) @@ "predictor_limit_flag" :> Val(254) @@
       "sensitivity" :> Val(255) @@ "agbd_prediction/agbd_a1" :> Val(255) @@
       "agbd_prediction/response_limit_flag_a1" :> Val(FloatSentinel) ),
     \* the fill values everywhere
     ( "lat_lowestmode" :> Val(FloatSentinel) @@ "lon_lowestmode" :> Val(45) @@
       "agbd" :> Val(FloatSentinel) @@
       "predictor_limit_flag" :> Val(ByteSentinel) @@
       "sensitivity" :> Val(FloatSentinel) @@
       "agbd_prediction/agbd_a1" :> Val(FloatSentinel) @@
       "agbd_prediction/response_limit_flag_a1" :> Val(ByteSentinel) ),
     \* a latitude that is NaN in the file
     ( "lat_lowestmode" :> NaN @@ "lon_lowestmode" :> Val(45) @@
       "agbd" :> NaN @@ "predictor_limit_flag" :> Val(0) ),
     \* a longitude that is NaN in the file
     ( "lat_lowestmode" :> Val(12) @@ "lon_lowestmode" :> NaN @@
       "agbd" :> Val(100) @@ "predictor_limit_flag" :> Val(ByteSentinel) ) >>

\* The sets of datasets a BEAM group may lack.
AbsentChoices ==
  { {}, {"agbd"}, {"sensitivity"}, {"lat_lowestmode"} }

IsBeamKey(k) == startswith(k, "BEAM")

KeyIndex(k) == CHOOSE i \in 1..Len(KeyOrder) : KeyOrder[i] = k

\* The shot number of row i of group k: distinct for distinct rows of a file
\* and ascending along the file.
ShotNumber(k, i) == 100 * KeyIndex(k) + i

\* The subsequence of KeyOrder that keeps the keys of the set ks.
KeysOf(ks) == SelectSeq(KeyOrder, LAMBDA k : k \in ks)

SeqsUpTo(S, n) == UNION { [1..m -> S] : m \in 0..n }

RECURSIVE SumOver(_, _)
SumOver(f, S) ==
  IF S = {} THEN 0
  ELSE LET x == CHOOSE y \in S : TRUE IN f[x] + SumOver(f, S \ {x})

\* What a BEAM group may hold: its shots, and the datasets it lacks.
BeamContents ==
  [shots : SeqsUpTo(1..Len(Shots), MaxRows), absent : AbsentChoices]

\* What a group that is no beam holds: one clean shot under the same
\* dataset names.
OtherContents == [shots |-> << 1 >>, absent |-> {}]

\* The groups of a file with the key set ks.
GroupsOf(ks) ==
  LET beams == { k \in ks : IsBeamKey(k) }
  IN  { b @@ [k \in ks \ beams |-> OtherContents] :
        b \in { c \in [beams -> BeamContents] :
                  SumOver([k \in beams |-> Len(c[k].shots)], beams)
                    <= MaxRows } }

\* The files of the model.
Files ==
  UNION { { [keys |-> KeysOf(ks), groups |-> g] : g \in GroupsOf(ks) } :
          ks \in KeySets }

\* path in hdf_fh[k]
HasDataset(file, k, path) ==
  /\ k \in DOMAIN file.groups
  /\ path \in declared_paths
  /\ path \notin file.groups[k].absent

\* hdf_fh[k][path][:]
DatasetValues(file, k, path) ==
  LET shots == file.groups[k].shots
  IN  [i \in 1..Len(shots) |->
         IF path = "shot_number" THEN Val(ShotNumber(k, i))
         ELSE IF path \in DOMAIN Shots[shots[i]] THEN Shots[shots[i]][path]
         ELSE Val(1)]

(* The collaborators in gedi_lib.                                           *)

\* gedi_lib.hdf_to_df: the dataset at the path becomes the column named by
\* the path's last segment; nothing happens when the file has no such path.
hdf_to_df(file, k, path, t) ==
  IF HasDataset(file, k, path)
  THEN SetColumn(t, column_name[path], DatasetValues(file, k, path))
  ELSE t

\* gedi_lib.add_shot_number_breakdown: adds a column derived from
\* shot_number, leaving the other columns and the rows as they are.
add_shot_number_breakdown(t) ==
  SetColumn(t, "shot_number_within_beam",
            [i \in 1..NumRows(t) |-> Val(t.data["shot_number"][i].v % 100)])

(* write_csv, statement by statement.                                       *)

\* The column names the hdf_to_df calls on paths target, call by call.
columns_of(paths) == [i \in 1..Len(paths) |-> column_name[paths[i]]]

fetch_columns == columns_of(fetch_order)

\* The calls that target column c, in call order, for every column of cols.
calls_by_column(cols) ==
  [c \in Range(cols) |->
     SelectSeq([i \in 1..Len(cols) |-> i], LAMBDA i : cols[i] = c)]

calls_of == calls_by_column(fetch_columns)

\* What each hdf_to_df call on paths gives when made on an empty table.
fetched(file, k, paths) ==
  [i \in 1..Len(paths) |-> hdf_to_df(file, k, paths[i], EmptyTable)]

\* The table the calls leave when made in order on one table that starts
\* empty: a call that finds its dataset sets the column, so a column stands
\* where the first such call put it and holds what the last such call gave.
merged(got, cols, calls) ==
  LET hit(i) == got[i].columns # << >>
      hits(c) == SelectSeq(calls[c], hit)
      placed == SelectSeq([i \in 1..Len(got) |-> i],
                          LAMBDA i : hit(i) /\ Head(hits(cols[i])) = i)
  IN  [columns |-> [j \in 1..Len(placed) |-> cols[placed[j]]],
       data |-> [c \in { cols[placed[j]] : j \in 1..Len(placed) } |->
                   got[hits(c)[Len(hits(c))]].data[c]]]

\* The table of beam k after both loops over the schemas.
Assemble(file, k) ==
  merged(fetched(file, k, fetch_order), fetch_columns, calls_of)

\* Series.replace(to_replace, np.nan)
replace(values, to_replace) ==
  [i \in 1..Len(values) |->
     IF notnull(values[i]) /\ values[i].v = to_replace THEN NaN ELSE values[i]]

\* df.loc[:, names] raises KeyError when a name is not a column.
LocRaises(t, names) == \E c \in Range(names) : ~HasColumn(t, c)

\* A replace that is not restricted to the named columns.
ReplaceIn_every_column(t, names, to_replace) ==
  [t EXCEPT !.data =
     [c \in DOMAIN t.data |-> replace(t.data[c], to_replace)]]

\* df[names] = df.loc[:, names].replace(to_replace, np.nan)
ReplaceIn(t, names, to_replace) ==
  LET named == Range(names)
  IN  [t EXCEPT !.data =
         [c \in DOMAIN t.data |->
            IF c \in named THEN replace(t.data[c], to_replace)
            ELSE t.data[c]]]

\* The two replace statements.
Clean(t) ==
  ReplaceIn(ReplaceIn(t, filled_vars_float, FloatSentinel),
            filled_vars_byte, ByteSentinel)

RECURSIVE Indices(_, _)
\* The indices i of 1..n, ascending, with keep[i].
Indices(keep, n) ==
  IF n = 0 THEN << >>
  ELSE IF keep[n] THEN Append(Indices(keep, n - 1), n)
  ELSE Indices(keep, n - 1)

\* df[mask]: the rows whose mask is true, in order, every column kept.
SelectRows(t, keep) ==
  LET idx == Indices(keep, NumRows(t))
  IN  [t EXCEPT !.data =
         [c \in DOMAIN t.data |-> [j \in 1..Len(idx) |-> t.data[c][idx[j]]]]]

\* df = df[df.<column>.notnull()]
DropNull(t, c) ==
  SelectRows(t, [i \in 1..NumRows(t) |-> notnull(t.data[c][i])])

\* A filter that looks at the latitude only.
Filter_lat_only(t) == DropNull(t, "lat_lowestmode")

\* The two filter statements.
Filter(t) == DropNull(DropNull(t, "lat_lowestmode"), "lon_lowestmode")

\* The lines df.to_csv appends: the column names when header is set, then
\* one line per row.
HeaderLine(t) == [kind |-> "header", cells |-> t.columns]

\* The rows written last row first.
RowLines_reversed(t) ==
  [i \in 1..NumRows(t) |->
     [kind |-> "row", cells |-> RowOf(t, NumRows(t) + 1 - i)]]

RowLines(t) == [i \in 1..NumRows(t) |-> [kind |-> "row", cells |-> RowOf(t, i)]]

\* A to_csv that writes the column names on every call.
to_csv_header_every_call(t, header) == << HeaderLine(t) >> \o RowLines(t)


to_csv(t, header) ==
  (IF header THEN << HeaderLine(t) >> ELSE << >>) \o RowLines(t)

\* The exception one pass of the loop body raises on the assembled table t,
\* or "none".
BodyRaises(t) ==
  IF LocRaises(t, filled_vars_float) \/ LocRaises(t, filled_vars_byte)
    THEN "KeyError"
  ELSE IF ~HasColumn(t, "lat_lowestmode") \/ ~HasColumn(t, "lon_lowestmode")
    THEN "AttributeError"
  ELSE IF ~HasColumn(t, "shot_number") THEN "KeyError"
  ELSE "none"

(* extract_values and its inputs.                                           *)

\* The input paths of the model.
Paths ==
  { "GEDI_sample.h5", "foo.h5", "GEDI_sample.txt", "GEDI/foo.h5",
    "dir/gedi.h5", "h5" }

\* What output_path holds before the run: a line of an earlier file.
Preexisting == << [kind |-> "stale", cells |-> << >>] >>

\* A guard that tests the whole path instead of its basename.
IsGediFilename_whole_path(path) ==
  startswith(path, "GEDI") /\ endswith(path, ".h5")

\* The filename guard of extract_values.
IsGediFilename(path) ==
  startswith(basename(path), "GEDI") /\ endswith(basename(path), ".h5")

\* No instance is under test in a run of the driver.
NoSchema == GediVars(<< >>, << >>, << >>)

Init ==
  /\ pc = "start"
  /\ input_path \in Paths
  /\ dest = Preexisting
  /\ src_opened = FALSE
  /\ dest_opened = FALSE
  /\ logged = << >>
  /\ hdf = [keys |-> << >>, groups |-> << >>]
  /\ pos = 0
  /\ is_first = TRUE
  /\ assembled = EmptyTable
  /\ serialized = << >>
  /\ raised = "none"
  /\ schema = NoSchema
  /\ numeric_out = << >>
  /\ all_out = << >>

\* extract_values on a path that fails the guard: log and return.
ExtractValuesReject ==
  /\ pc = "start"
  /\ ~IsGediFilename(input_path)
  /\ logged' = Append(logged, input_path)
  /\ pc' = "rejected"
  /\ UNCHANGED << input_path, dest, src_opened, dest_opened, hdf, pos,
                  is_first, assembled, serialized, raised >>
  /\ UNCHANGED schema_vars

\* extract_values on a path that passes: open the source, open the output
\* for writing (which empties it) and enter write_csv.
ExtractValuesOpen ==
  /\ pc = "start"
  /\ IsGediFilename(input_path)
  /\ \E file \in Files : hdf' = file
  /\ src_opened' = TRUE
  /\ dest_opened' = TRUE
  /\ dest' = << >>
  /\ is_first' = TRUE
  /\ pos' = 0
  /\ pc' = "loop"
  /\ UNCHANGED << input_path, logged, assembled, serialized,
                  raised >>
  /\ UNCHANGED schema_vars

\* One pass of the for loop on a key that is not a beam: continue.
WriteCsvSkip ==
  /\ pc = "loop"
  /\ pos < Len(hdf.keys)
  /\ ~IsBeamKey(hdf.keys[pos + 1])
  /\ pos' = pos + 1
  /\ UNCHANGED << pc, input_path, dest, src_opened, dest_opened, logged, hdf,
                  is_first, assembled, serialized, raised >>
  /\ UNCHANGED schema_vars

\* The last statement of the loop body: out is appended to the output, with
\* the column names first when is_first is set.
Serialize(k, out) ==
  /\ dest' = dest \o to_csv(out, is_first)
  /\ serialized' =
       Append(serialized,
              [key |-> k, columns |-> out.columns, nrows |-> NumRows(out)])
  /\ is_first' = FALSE

\* The loop body on beam k from the assembled table t on.
LoopBody(k, t) ==
  /\ assembled' = t
  /\ IF BodyRaises(t) # "none"
     THEN /\ raised' = BodyRaises(t)
          /\ pc' = "raised"
          /\ UNCHANGED << dest, pos, is_first, serialized >>
     ELSE /\ Serialize(k, add_shot_number_breakdown(Filter(Clean(t))))
          /\ pos' = pos + 1
          /\ UNCHANGED << pc, raised >>

\* One pass of the for loop on a beam: assemble, clean, filter, augment and
\* append to the output.  A statement that raises ends write_csv and
\* extract_values with nothing appended for this beam.
WriteCsvBeam ==
  /\ pc = "loop"
  /\ pos < Len(hdf.keys)
  /\ IsBeamKey(hdf.keys[pos + 1])
  /\ LET k == hdf.keys[pos + 1]
     IN  LoopBody(k, Assemble(hdf, k))
  /\ UNCHANGED << input_path, src_opened, dest_opened, logged, hdf >>
  /\ UNCHANGED schema_vars

\* The for loop is exhausted: write_csv and extract_values return.
WriteCsvReturn ==
  /\ pc = "loop"
  /\ pos = Len(hdf.keys)
  /\ pc' = "done"
  /\ UNCHANGED << input_path, dest, src_opened, dest_opened, logged, hdf, pos,
                  is_first, assembled, serialized, raised >>
  /\ UNCHANGED schema_vars

Next ==
  \/ ExtractValuesReject
  \/ ExtractValuesOpen
  \/ WriteCsvSkip
  \/ WriteCsvBeam
  \/ WriteCsvReturn

Spec == Init /\ [][Next]_vars

(* The schema views on their own: numeric_vars() and all_vars() called on   *)
(* an arbitrary GediVars instance.                                          *)

\* The names an instance under test may declare.
Names == { "a", "a10", "a2" }

\* Bounds: the names one instance declares in its three sequences together,
\* and the calls made of each view.
MaxNames == 3
MaxCalls == 2

Schemas ==
  { GediVars(x[1], x[2], x[3]) :
      x \in { y \in SeqsUpTo(Names, MaxNames) \X SeqsUpTo(Names, MaxNames)
                      \X SeqsUpTo(Names, MaxNames) :
                Len(y[1]) + Len(y[2]) + Len(y[3]) <= MaxNames } }

InitVars ==
  /\ pc = "start"
  /\ input_path = "GEDI_sample.h5"
  /\ dest = Preexisting
  /\ src_opened = FALSE
  /\ dest_opened = FALSE
  /\ logged = << >>
  /\ hdf = [keys |-> << >>, groups |-> << >>]
  /\ pos = 0
  /\ is_first = TRUE
  /\ assembled = EmptyTable
  /\ serialized = << >>
  /\ raised = "none"
  /\ schema \in Schemas
  /\ numeric_out = << >>
  /\ all_out = << >>

\* schema.numeric_vars()
CallNumericVars ==
  /\ Len(numeric_out) < MaxCalls
  /\ numeric_out' = Append(numeric_out, numeric_vars(schema))
  /\ UNCHANGED << schema, all_out >>
  /\ UNCHANGED driver_vars

\* schema.all_vars()
CallAllVars ==
  /\ Len(all_out) < MaxCalls
  /\ all_out' = Append(all_out, all_vars(schema))
  /\ UNCHANGED << schema, numeric_out >>
  /\ UNCHANGED driver_vars

NextVars ==
  \/ CallNumericVars
  \/ CallAllVars

SpecVars == InitVars /\ [][NextVars]_vars

(* Vocabulary of the properties.                                            *)

\* extract_values got past the guard.
Started == pc \in {"loop", "done", "raised"}

\* The latest pass of the loop body ran to its end.
BeamWritten == pc \in {"loop", "done"} /\ serialized # << >>

HeaderCount(lines) ==
  Cardinality({ i \in 1..Len(lines) : lines[i].kind = "header" })

DataRows(lines) == SelectSeq(lines, LAMBDA l : l.kind = "row")

\* The keys read so far that start with BEAM, in file order.
BeamKeysRead ==
  SelectSeq(SubSeq(hdf.keys, 1, pos), LAMBDA k : SubSeq(k, 1, 4) = "BEAM")

\* The data rows written before those of the j-th serialized table.
RECURSIVE RowsBefore(_)
RowsBefore(j) ==
  IF j <= 1 THEN 0 ELSE RowsBefore(j - 1) + serialized[j - 1].nrows

\* The data rows of the output that the j-th serialized table accounts for.
BlockRows(j) ==
  SubSeq(DataRows(dest), RowsBefore(j) + 1,
         RowsBefore(j) + serialized[j].nrows)

ColumnIndex(columns, c) == CHOOSE i \in 1..Len(columns) : columns[i] = c

\* The shot numbers of the data rows of the j-th serialized table.
BlockShots(j) ==
  LET rows == BlockRows(j)
      at == ColumnIndex(serialized[j].columns, "shot_number")
  IN  [i \in 1..Len(rows) |-> rows[i].cells[at].v]

\* The value the file holds for row i of group k at a top-level path.
SourceCell(k, path, i) == DatasetValues(hdf, k, path)[i]

\* The n-th smallest member of a set of numbers.
Nth(S, n) == CHOOSE i \in S : Cardinality({ m \in S : m <= i }) = n

\* The rows of group k whose two coordinates are present in the file.
LocatedRows(k) ==
  { i \in 1..Len(hdf.groups[k].shots) :
      /\ SourceCell(k, "lat_lowestmode", i) # NaN
      /\ SourceCell(k, "lon_lowestmode", i) # NaN }

\* The paths group k holds, in fetch order.
PresentPaths(k) ==
  SelectSeq(fetch_order, LAMBDA p : p \notin hdf.groups[k].absent)

(* C1 *)

\* C1 as stated: every run that passes the guard and returns leaves the
\* header row in the output exactly once, as its first line, whatever the
\* number of BEAM groups.
C1_HeaderOnceAnyBeamCount ==
  pc = "done" => HeaderCount(dest) = 1 /\ dest[1].kind = "header"

\* C1 amended: past the guard the output holds no header while is_first is
\* set (NOT_STARTED) and exactly one, as its first line, from the first
\* serialized beam on (WRITING); a run that returns is in WRITING exactly
\* when the file has a BEAM group, and leaves the output empty otherwise.
C1_HeaderOnceWhenABeam ==
  Started =>
    /\ is_first <=> serialized = << >>
    /\ HeaderCount(dest) = (IF is_first THEN 0 ELSE 1)
    /\ ~is_first => dest[1].kind = "header"
    /\ pc = "done" =>
         (is_first <=> \A i \in 1..Len(hdf.keys) :
                         SubSeq(hdf.keys[i], 1, 4) # "BEAM")
    /\ (pc = "done" /\ is_first) => dest = << >>

C1_Witness ==
  /\ pc = "done"
  /\ Len(serialized) = 2
  /\ serialized[2].nrows > 0
  /\ dest[1].kind = "header"

(* C2 *)

AcceptedPaths == { "GEDI_sample.h5" }

\* C3: extract_values goes on exactly when the basename of the path starts
\* with GEDI and ends with .h5; otherwise it logs the path and returns with
\* neither file opened and the output as it was before the run.
C3_GuardDecides ==
  /\ pc = "rejected" =>
       /\ input_path \notin AcceptedPaths
       /\ ~src_opened /\ ~dest_opened
       /\ dest = Preexisting
       /\ logged = << input_path >>
  /\ Started =>
       /\ input_path \in AcceptedPaths
       /\ src_opened /\ dest_opened
       /\ logged = << >>
       /\ \A i \in 1..Len(dest) : dest[i].kind # "stale"

C3_Witness ==
  /\ pc = "rejected"
  /\ input_path = "GEDI/foo.h5"
  /\ dest = Preexisting

(* C4 *)

\* C4: a dataset that a beam lacks never makes write_csv abort; the run goes
\* on to the remaining beams and returns.
C4_AbsentDatasetNeverAborts ==
  /\ pc # "raised"
  /\ raised = "none"

(* C5 *)

\* C5: every serialized beam table has the column sequence of the first
\* one, so every data row lines up with the one header.
C5_SameColumnsEveryBeam ==
  \A j \in 1..Len(serialized) :
    serialized[j].columns = serialized[1].columns

(* C6 *)

\* C6: the row filter keeps a row exactly when both coordinates are present
\* in the cleaned table; it keeps the columns, the values of the kept rows
\* and their order, and never lengthens the table.
C6_FilterKeepsLocatedRows ==
  BeamWritten =>
    LET c == Clean(assembled)
        f == Filter(c)
        keep == { i \in 1..NumRows(c) :
                    /\ c.data["lat_lowestmode"][i] # NaN
                    /\ c.data["lon_lowestmode"][i] # NaN }
    IN  /\ f.columns = c.columns
        /\ DOMAIN f.data = DOMAIN c.data
        /\ \A col \in DOMAIN f.data : Len(f.data[col]) = Cardinality(keep)
        /\ NumRows(f) <= NumRows(c)
        /\ \A n \in 1..Cardinality(keep) : RowOf(f, n) = RowOf(c, Nth(keep, n))
        /\ serialized[Len(serialized)].nrows = Cardinality(keep)

C6_Witness ==
  /\ BeamWritten
  /\ NumRows(assembled) = 2
  /\ assembled.data["lat_lowestmode"][1] # NaN
  /\ assembled.data["lon_lowestmode"][1] = NaN
  /\ serialized[Len(serialized)].nrows = 1

(* C7 *)

\* C7: the cleaner turns a cell into a missing value exactly when the cell
\* is in a filled_vars_float column and holds -9999 or is in a
\* filled_vars_byte column and holds 255; every other cell, the columns and
\* the row count stay as they are.
C7_CleanerTouchesOnlyListedSentinels ==
  BeamWritten =>
    LET c == Clean(assembled)
    IN  /\ c.columns = assembled.columns
        /\ DOMAIN c.data = DOMAIN assembled.data
        /\ \A col \in DOMAIN c.data :
             /\ Len(c.data[col]) = Len(assembled.data[col])
             /\ \A i \in 1..Len(c.data[col]) :
                  IF \/ /\ col \in Range(filled_vars_float)
                        /\ assembled.data[col][i] = Val(FloatSentinel)
                     \/ /\ col \in Range(filled_vars_byte)
                        /\ assembled.data[col][i] = Val(ByteSentinel)
                  THEN c.data[col][i] = NaN
                  ELSE c.data[col][i] = assembled.data[col][i]

C7_Witness ==
  /\ BeamWritten
  /\ assembled.data["predictor_limit_flag"] = << Val(254), Val(ByteSentinel) >>
  /\ assembled.data["sensitivity"] = << Val(ByteSentinel), Val(FloatSentinel) >>
  /\ assembled.data["agbd_a1"] = << Val(ByteSentinel), Val(FloatSentinel) >>
  /\ assembled.data["response_limit_flag_a1"]
       = << Val(FloatSentinel), Val(ByteSentinel) >>

(* C8 *)

\* C8: the data rows of the output are, beam after beam in the file's key
\* order, the rows each BEAM group keeps after the filter, in their order
\* within the beam; a key that does not start with BEAM adds nothing, and
\* each beam's table is built from that beam alone.
C8_RowsFollowBeamOrder ==
  Started =>
    /\ [j \in 1..Len(serialized) |-> serialized[j].key] = BeamKeysRead
    /\ Len(DataRows(dest)) = RowsBefore(Len(serialized) + 1)
    /\ \A j \in 1..Len(serialized) :
         BlockShots(j) =
           [n \in 1..Cardinality(LocatedRows(serialized[j].key)) |->
              ShotNumber(serialized[j].key,
                         Nth(LocatedRows(serialized[j].key), n))]
    /\ BeamWritten =>
         /\ BlockRows(Len(serialized)) =
              [i \in 1..serialized[Len(serialized)].nrows |->
                 [kind |-> "row",
                  cells |-> RowOf(add_shot_number_breakdown(
                                    Filter(Clean(assembled))), i)]]
         /\ assembled.columns =
              [i \in 1..Len(PresentPaths(serialized[Len(serialized)].key)) |->
                 basename(PresentPaths(serialized[Len(serialized)].key)[i])]
         /\ NumRows(assembled) =
              Len(hdf.groups[serialized[Len(serialized)].key].shots)

C8_Witness ==
  /\ pc = "done"
  /\ hdf.keys = << "ANCILLARY", "BEAM0000", "BEAM0001" >>
  /\ Len(serialized) = 2
  /\ BlockShots(1) = << 201 >>
  /\ BlockShots(2) = << 301 >>

(* C9 *)

\* The names of Names from the smallest to the greatest in code point order.
NamesAscending == << "a", "a10", "a2" >>

NameRank(n) == CHOOSE i \in 1..Len(NamesAscending) : NamesAscending[i] = n

Occurrences(s, n) == Cardinality({ i \in 1..Len(s) : s[i] = n })

\* out holds the elements of in, each as often as in does, in ascending
\* order.
IsSortedArrangement(out, in) ==
  /\ Len(out) = Len(in)
  /\ \A n \in Names : Occurrences(out, n) = Occurrences(in, n)
  /\ \A i \in 1..Len(out) : \A j \in i..Len(out) :
       NameRank(out[i]) <= NameRank(out[j])

\* out is the members of the set S in strictly ascending order.
IsSortedSet(out, S) ==
  /\ Len(out) = Cardinality(S)
  /\ Range(out) = S
  /\ \A i \in 1..Len(out) : \A j \in (i + 1)..Len(out) :
       NameRank(out[i]) < NameRank(out[j])

NumericDeclared == schema.integer_variables \o schema.float_variables

AllDeclared == NumericDeclared \o schema.string_variables

\* C9 as stated: for any three sequences of names, all_vars() is the sorted
\* set of declared names without duplicates and numeric_vars() the sorted
\* union of the integer and float names, two calls agreeing.
C9_SortedSetForAnyInstance ==
  /\ \A i \in 1..Len(all_out) :
       IsSortedSet(all_out[i], Range(AllDeclared)) /\ all_out[i] = all_out[1]
  /\ \A i \in 1..Len(numeric_out) :
       /\ IsSortedSet(numeric_out[i], Range(NumericDeclared))
       /\ numeric_out[i] = numeric_out[1]

\* C9 amended: all_vars() and numeric_vars() return the declared names in
\* ascending order, each as often as it is declared, whatever the order of
\* declaration, two calls agreeing; the result is the sorted set of names
\* without duplicates when no name is declared twice.
C9_SortedArrangement ==
  /\ \A i \in 1..Len(all_out) :
       /\ IsSortedArrangement(all_out[i], AllDeclared)
       /\ all_out[i] = all_out[1]
       /\ Cardinality(Range(AllDeclared)) = Len(AllDeclared)
            => IsSortedSet(all_out[i], Range(AllDeclared))
  /\ \A i \in 1..Len(numeric_out) :
       /\ IsSortedArrangement(numeric_out[i], NumericDeclared)
       /\ numeric_out[i] = numeric_out[1]
       /\ Cardinality(Range(NumericDeclared)) = Len(NumericDeclared)
            => IsSortedSet(numeric_out[i], Range(NumericDeclared))

C9_Witness ==
  /\ schema = GediVars(<< "a2" >>, << "a10" >>, << "a" >>)
  /\ all_out = << << "a", "a10", "a2" >>, << "a", "a10", "a2" >> >>
  /\ numeric_out = << << "a10", "a2" >> >>

(* C10 *)

AllSchemas ==
  { gedi_vars } \cup { group_vars[group_names[i]] : i \in 1..Len(group_names) }

KindsDisjoint(s) ==
  /\ Range(s.integer_variables) \cap Range(s.float_variables) = {}
  /\ Range(s.integer_variables) \cap Range(s.string_variables) = {}
  /\ Range(s.float_variables) \cap Range(s.string_variables) = {}

DeclaredNames(s) ==
  Range(s.integer_variables) \cup Range(s.float_variables)
    \cup Range(s.string_variables)

\* C10: every filled_vars_float name is a float variable of some schema and
\* every filled_vars_byte name an integer variable of some schema; the two
\* fill lists share no name, no schema has a name in two kinds, and no two
\* schemas declare the same output column; so in every state of a run each
\* column of the assembled table that a fill list names is a column some
\* schema declares.
C10_FillListsMatchSchemas ==
  /\ \A c \in DOMAIN assembled.data :
       c \in Range(filled_vars_float) \cup Range(filled_vars_byte) =>
         \E s \in AllSchemas : c \in DeclaredNames(s)
  /\ \A n \in Range(filled_vars_float) :
       \E s \in AllSchemas : n \in Range(s.float_variables)
  /\ \A n \in Range(filled_vars_byte) :
       \E s \in AllSchemas : n \in Range(s.integer_variables)
  /\ Range(filled_vars_float) \cap Range(filled_vars_byte) = {}
  /\ \A s \in AllSchemas : KindsDisjoint(s)
  /\ \A s1 \in AllSchemas : \A s2 \in AllSchemas :
       s1 # s2 => DeclaredNames(s1) \cap DeclaredNames(s2) = {}

C10_Witness ==
  /\ BeamWritten
  /\ Range(filled_vars_float) \cup Range(filled_vars_byte)
       \subseteq DOMAIN assembled.data
  /\ \E i \in 1..Len(DataRows(dest)) : NaN \in Range(DataRows(dest)[i].cells)
====
